---- MODULE Spec2Model ----
(***************************************************************************)
(* A model of uidump-parser (src/src/main.cpp): the option loop of main,   *)
(* the file check, the load of the XML document, the dispatch to one of    *)
(* the four traversals, and what the traversals write.                     *)
(*                                                                         *)
(* Strings are TLA+ strings (\o is operator<< / concatenation).  The       *)
(* argument of -F is a sequence of characters, because main looks for the  *)
(* first '=' in it; Str turns a piece of it into a string.                 *)
(* An element is a number 1..doc.n in document (pre-order) order; NULL is  *)
(* the null pointer.  A const char* result is <<>> for nullptr and <<v>>   *)
(* for the string v.                                                       *)
(***************************************************************************)
EXTENDS Integers, Sequences, FiniteSets

VARIABLES
    pc,               \* where main is: "getopt", "check_file", "load", "dispatch", "done"
    xml_file,         \* main.cpp:187
    filter_attribute, \* main.cpp:188
    filter_value,     \* main.cpp:188
    only_print,       \* main.cpp:188
    resource_id,      \* main.cpp:189
    class_name,       \* main.cpp:189
    text_value,       \* main.cpp:189
    debug,            \* main.cpp:28
    doc,              \* main.cpp:254, the parsed document
    loaded,           \* whether doc.LoadFile returned XML_SUCCESS
    out,              \* the standard output, a sequence of [chan, line]
    err,              \* the standard error, a sequence of lines
    variant,          \* the traversal that main called, "none" before
    events,           \* what the traversal did, in order: probes and prints
    filter,           \* main.cpp:219, the last argument handed to case 'F'
    status            \* how the process ended, "running" before

vars == <<pc, xml_file, filter_attribute, filter_value, only_print, resource_id,
          class_name, text_value, debug, doc, loaded, out, err, variant, events,
          filter, status>>

(***************************************************************************)
(* Bounds and input sets.                                                  *)
(***************************************************************************)
MaxNodes == 3

NULL == 0

\* optarg of -r and -c, of -t, of -p and of -f ("" is an empty argument).
IdArgs == {"", "a"}
TextArgs == {"", "ab"}
PrintArgs == {"", "text"}
FileArgs == {"", "dump.xml"}

\* optarg of -F, character by character.
FilterArgs ==
    { <<"a">>,
      <<"a", "=", "a">>,
      <<"t", "e", "x", "t", "=", "a", "b">>,
      <<"a", "=">>,
      <<"=", "a">>,
      <<"a", "=", "=">> }

\* The attribute lists an element of the document may carry.
AttrLists ==
    { <<>>,
      << [name |-> "a", value |-> "a"],
         [name |-> "resource-id", value |-> "a"],
         [name |-> "class", value |-> "a"] >>,
      << [name |-> "resource-id", value |-> "ab"],
         [name |-> "class", value |-> "a"],
         [name |-> "text", value |-> "ab"],
         [name |-> "a", value |-> "ab"] >> }

(***************************************************************************)
(* The documents tinyxml2 can hand back: forests of at most MaxNodes       *)
(* elements, numbered in document order; parent 0 is the document itself.  *)
(* A document may hold no element at all (a comment or declaration only)   *)
(* and may hold several top-level elements.                                *)
(***************************************************************************)
RECURSIVE AncestorsOrSelf(_, _)
AncestorsOrSelf(p, i) ==
    IF i = 0 THEN {} ELSE {i} \cup AncestorsOrSelf(p, p[i])

Shapes(n) ==
    { p \in [1..n -> 0..n] :
        \A i \in 1..n :
            /\ p[i] < i
            /\ i > 1 => p[i] \in {0} \cup AncestorsOrSelf(p, i - 1) }

Docs ==
    UNION { { [n |-> n, parent |-> p, attrs |-> a] :
                p \in Shapes(n), a \in [1..n -> AttrLists] } :
            n \in 0..MaxNodes }

EmptyDoc == [n |-> 0, parent |-> <<>>, attrs |-> <<>>]

Min(S) == CHOOSE x \in S : \A y \in S : x <= y

\* XMLNode::FirstChildElement of the document or of an element.
Children(e) == { i \in 1..doc.n : doc.parent[i] = e }

FirstChildElement(e) ==
    IF Children(e) = {} THEN NULL ELSE Min(Children(e))

\* XMLNode::NextSiblingElement.
NextSiblingElement(e) ==
    LET later == { i \in Children(doc.parent[e]) : i > e }
    IN  IF later = {} THEN NULL ELSE Min(later)

\* XMLDocument::RootElement.
RootElement == FirstChildElement(0)

\* XMLElement::Name: a UI dump's top-level element is hierarchy, the rest node.
Name(e) == IF doc.parent[e] = 0 THEN "hierarchy" ELSE "node"

\* XMLElement::Attribute(name): the value of the first attribute of that name.
Attribute(e, name) ==
    LET at == doc.attrs[e]
        hits == { i \in 1..Len(at) : at[i].name = name }
    IN  IF hits = {} THEN <<>> ELSE << at[Min(hits)].value >>

(***************************************************************************)
(* std::string pieces of the -F argument.                                  *)
(***************************************************************************)
RECURSIVE Str(_)
Str(s) == IF s = <<>> THEN "" ELSE Head(s) \o Str(Tail(s))

npos == 0 - 1

\* std::string::find(ch): the 0-based position of the first ch, or npos.
find(s, ch) ==
    LET hits == { i \in 1..Len(s) : s[i] = ch }
    IN  IF hits = {} THEN npos ELSE Min(hits) - 1

\* std::string::substr(pos, len) and substr(pos).
substr(s, pos, len) == SubSeq(s, pos + 1, pos + len)
substr_from(s, pos) == SubSeq(s, pos + 1, Len(s))

(***************************************************************************)
(* Output.                                                                 *)
(***************************************************************************)
Cout(line) == [chan |-> "cout", line |-> line]

\* dprint, main.cpp:30-37: printf to the standard output when debug is set.
dprint(line) ==
    IF debug = 0 THEN <<>> ELSE << [chan |-> "printf", line |-> line] >>

\* print_help, main.cpp:39-69.
print_help ==
    << Cout("Usage: uidump-parser --file <xml_file> [OPTIONS]"),
       Cout("Options:"),
       Cout("  --file, -f <xml_file>            : Path to the XML file to parse (required)"),
       Cout("  --resource-id, -r <id>           : Search for a node with the given resource-id"),
       Cout("  --class, -c <class_name>         : Search for a node with the given class name"),
       Cout("  --text, -t <text_value>          : Search for a node with the given text value"),
       Cout("  --filter-attribute, -F <attr=val>: Filter by any attribute dynamically (e.g., package, content-desc)"),
       Cout("  --print-only, -p <attribute>     : Print only the specified attribute for matched nodes"),
       Cout("  --bounds, -b                     : Print bounds for matched nodes"),
       Cout("  --debug, -d                      : Enable debug mode for verbose output"),
       Cout("  --help, -h                       : Show this help message and exit"),
       Cout(""),
       Cout("Examples:"),
       Cout("  ./uidump-parser --file dump.xml --resource-id com.example --print-only bounds --debug"),
       Cout("  ./uidump-parser --file dump.xml --resource-id com.example --filter-attribute text=Grindr --print-only bounds"),
       Cout("  ./uidump-parser --file dump.xml --class android.widget.TextView --filter-attribute enabled=true"),
       Cout("  ./uidump-parser --file dump.xml --text Instagram --filter-attribute package=com.example --bounds") >>

\* print_node_attributes without the closing empty line of main.cpp:99.
print_node_attributes_no_separator(element, op) ==
    LET attr == Attribute(element, op)
        at == doc.attrs[element]
    IN  dprint("Processing node: " \o Name(element)) \o
        IF op # ""
        THEN IF attr # <<>>
             THEN << Cout(op \o ": " \o attr[1]) >>
             ELSE << Cout("Attribute '" \o op \o "' not found on node "
                          \o Name(element)) >>
        ELSE << Cout("Node: " \o Name(element)) >> \o
             [ i \in 1..Len(at) |->
                 Cout("  " \o at[i].name \o ": " \o at[i].value) ] \o
             ( IF Len(at) = 0
               THEN << Cout("  No attributes found for node: " \o Name(element)) >>
               ELSE <<>> )

\* print_node_attributes, main.cpp:71-100: the lines it writes for one element.
print_node_attributes(element, op) ==
    LET attr == Attribute(element, op)
        at == doc.attrs[element]
        hasAttributes == Len(at) > 0
    IN  dprint("Processing node: " \o Name(element)) \o
        IF op # ""
        THEN IF attr # <<>>
             THEN << Cout(op \o ": " \o attr[1]) >>
             ELSE << Cout("Attribute '" \o op \o "' not found on node "
                          \o Name(element)) >>
        ELSE << Cout("Node: " \o Name(element)) >> \o
             [ i \in 1..Len(at) |->
                 Cout("  " \o at[i].name \o ": " \o at[i].value) ] \o
             ( IF ~hasAttributes
               THEN << Cout("  No attributes found for node: " \o Name(element)) >>
               ELSE <<>> ) \o
             << Cout("") >>

\* node_matches_additional_filter with the null check of main.cpp:107 lost:
\* an element without the attribute passes.
node_matches_additional_filter_no_null_check(element, fa, fv) ==
    IF fa # "" /\ fv # ""
    THEN LET attr_value == Attribute(element, fa)
         IN  attr_value = <<>> \/ fv = attr_value[1]
    ELSE TRUE

\* node_matches_additional_filter, main.cpp:102-110.
node_matches_additional_filter(element, fa, fv) ==
    IF fa # "" /\ fv # ""
    THEN LET attr_value == Attribute(element, fa)
         IN  attr_value # <<>> /\ fv = attr_value[1]
    ELSE TRUE

(***************************************************************************)
(* The traversals.  Each returns what it does, in order: a probe of an     *)
(* element (its predicate is evaluated there), a print (the element is     *)
(* handed to print_node_attributes with the print directive arg), or ub:   *)
(* a member call through a null pointer, which is undefined behaviour.     *)
(***************************************************************************)
Visit(e) == [op |-> "probe", node |-> e, arg |-> ""]
Emit(e, op) == [op |-> "print", node |-> e, arg |-> op]
NullDeref == [op |-> "ub", node |-> NULL, arg |-> ""]

\* find_node_by_resource_id, main.cpp:112-131; resource_id_children is its
\* loop over the children, lines 126-130, from child on.
RECURSIVE find_node_by_resource_id(_, _, _, _, _), resource_id_children(_, _, _, _, _)
\* find_node_by_resource_id with the two tests of main.cpp:119-120 joined by
\* "or" instead of nested.
find_node_by_resource_id_either_test(element, rid, op, fa, fv) ==
    IF element = NULL
    THEN << NullDeref >>
    ELSE LET res_id_attr == Attribute(element, "resource-id")
         IN  << Visit(element) >> \o
             ( IF \/ res_id_attr # <<>> /\ rid = res_id_attr[1]
                  \/ fa # "" /\ fv # ""
                       /\ node_matches_additional_filter(element, fa, fv)
               THEN << Emit(element, op) >>
               ELSE <<>> ) \o
             resource_id_children(FirstChildElement(element), rid, op, fa, fv)

find_node_by_resource_id(element, rid, op, fa, fv) ==
    IF element = NULL
    THEN << NullDeref >>
    ELSE LET res_id_attr == Attribute(element, "resource-id")
         IN  << Visit(element) >> \o
             ( IF /\ res_id_attr # <<>> /\ rid = res_id_attr[1]
                  /\ node_matches_additional_filter(element, fa, fv)
               THEN << Emit(element, op) >>
               ELSE <<>> ) \o
             resource_id_children(FirstChildElement(element), rid, op, fa, fv)

resource_id_children(child, rid, op, fa, fv) ==
    IF child = NULL
    THEN <<>>
    ELSE find_node_by_resource_id(child, rid, op, fa, fv) \o
         resource_id_children(NextSiblingElement(child), rid, op, fa, fv)

\* find_node_by_class, main.cpp:133-150; class_children is lines 145-149.
RECURSIVE find_node_by_class(_, _, _, _, _), class_children(_, _, _, _, _)
find_node_by_class(element, cls, op, fa, fv) ==
    IF element = NULL
    THEN << NullDeref >>
    ELSE LET class_attr == Attribute(element, "class")
         IN  << Visit(element) >> \o
             ( IF /\ class_attr # <<>> /\ cls = class_attr[1]
                  /\ node_matches_additional_filter(element, fa, fv)
               THEN << Emit(element, op) >>
               ELSE <<>> ) \o
             class_children(FirstChildElement(element), cls, op, fa, fv)

class_children(child, cls, op, fa, fv) ==
    IF child = NULL
    THEN <<>>
    ELSE find_node_by_class(child, cls, op, fa, fv) \o
         class_children(NextSiblingElement(child), cls, op, fa, fv)

\* find_node_by_text, main.cpp:152-169; text_children is lines 164-168.
RECURSIVE find_node_by_text(_, _, _, _, _), text_children(_, _, _, _, _)
\* find_node_by_text returning after a match instead of descending.
find_node_by_text_stops_at_match(element, txt, op, fa, fv) ==
    IF element = NULL
    THEN << NullDeref >>
    ELSE LET text_attr == Attribute(element, "text")
         IN  IF /\ text_attr # <<>> /\ txt = text_attr[1]
                /\ node_matches_additional_filter(element, fa, fv)
             THEN << Visit(element), Emit(element, op) >>
             ELSE << Visit(element) >> \o
                  text_children(FirstChildElement(element), txt, op, fa, fv)

find_node_by_text(element, txt, op, fa, fv) ==
    IF element = NULL
    THEN << NullDeref >>
    ELSE LET text_attr == Attribute(element, "text")
         IN  << Visit(element) >> \o
             ( IF /\ text_attr # <<>> /\ txt = text_attr[1]
                  /\ node_matches_additional_filter(element, fa, fv)
               THEN << Emit(element, op) >>
               ELSE <<>> ) \o
             text_children(FirstChildElement(element), txt, op, fa, fv)

text_children(child, txt, op, fa, fv) ==
    IF child = NULL
    THEN <<>>
    ELSE find_node_by_text(child, txt, op, fa, fv) \o
         text_children(NextSiblingElement(child), txt, op, fa, fv)

\* find_node_by_filter, main.cpp:171-184.  Its for loop starts at element and
\* follows NextSiblingElement: one pass of the loop body, then the loop from
\* the next sibling on, which is the function again.
RECURSIVE find_node_by_filter(_, _, _, _)
\* find_node_by_filter without the descent of main.cpp:181: siblings only.
find_node_by_filter_no_descent(element, fa, fv, op) ==
    IF element = NULL
    THEN <<>>
    ELSE << Visit(element) >> \o
         ( IF node_matches_additional_filter(element, fa, fv)
           THEN << Emit(element, op) >>
           ELSE <<>> ) \o
         find_node_by_filter(NextSiblingElement(element), fa, fv, op)

find_node_by_filter(element, fa, fv, op) ==
    IF element = NULL
    THEN <<>>
    ELSE << Visit(element) >> \o
         ( IF node_matches_additional_filter(element, fa, fv)
           THEN << Emit(element, op) >>
           ELSE <<>> ) \o
         find_node_by_filter(FirstChildElement(element), fa, fv, op) \o
         find_node_by_filter(NextSiblingElement(element), fa, fv, op)

\* What the prints of a traversal write, in order.
RECURSIVE Written(_)
Written(evs) ==
    IF evs = <<>>
    THEN <<>>
    ELSE ( IF Head(evs).op = "print"
           THEN print_node_attributes(Head(evs).node, Head(evs).arg)
           ELSE <<>> ) \o Written(Tail(evs))

HasNullDeref(evs) == \E i \in 1..Len(evs) : evs[i].op = "ub"

(***************************************************************************)
(* main.                                                                   *)
(***************************************************************************)
\* case 'F' splitting at the last '=' (rfind) instead of the first.
ParseFilter_last_equals(optarg, fa, fv) ==
    LET hits == { i \in 1..Len(optarg) : optarg[i] = "=" }
        equal_pos == IF hits = {} THEN npos
                     ELSE (CHOOSE i \in hits : \A j \in hits : j <= i) - 1
    IN  IF equal_pos # npos
        THEN << Str(substr(optarg, 0, equal_pos)),
                Str(substr_from(optarg, equal_pos + 1)) >>
        ELSE << fa, fv >>

\* case 'F', main.cpp:218-226: the filter fields after the argument optarg.
ParseFilter(optarg, fa, fv) ==
    LET equal_pos == find(optarg, "=")
    IN  IF equal_pos # npos
        THEN << Str(substr(optarg, 0, equal_pos)),
                Str(substr_from(optarg, equal_pos + 1)) >>
        ELSE << fa, fv >>

\* The chain with the class and text branches in the other order.
Selected_text_before_class ==
    IF resource_id # "" THEN "resource_id"
    ELSE IF text_value # "" THEN "text"
    ELSE IF class_name # "" THEN "class"
    ELSE IF filter_attribute # "" /\ filter_value # "" THEN "filter"
    ELSE "none"

\* The if / else-if chain of main.cpp:264-279: the traversal main calls.
Selected ==
    IF resource_id # "" THEN "resource_id"
    ELSE IF class_name # "" THEN "class"
    ELSE IF text_value # "" THEN "text"
    ELSE IF filter_attribute # "" /\ filter_value # "" THEN "filter"
    ELSE "none"

\* The call main makes for the selected traversal, main.cpp:265-275.
Traversal(v) ==
    CASE v = "resource_id" ->
           find_node_by_resource_id(RootElement, resource_id, only_print,
                                    filter_attribute, filter_value)
      [] v = "class" ->
           find_node_by_class(RootElement, class_name, only_print,
                              filter_attribute, filter_value)
      [] v = "text" ->
           find_node_by_text(RootElement, text_value, only_print,
                             filter_attribute, filter_value)
      [] v = "filter" ->
           find_node_by_filter(RootElement, filter_attribute, filter_value,
                               only_print)
      [] OTHER -> <<>>

UsageLine ==
    "Usage: uidump-parser --file <xml_file> [--resource-id <id>] [--class "
    \o "<class_name>] [--text <text_value>] [--filter-attribute "
    \o "<attr=value>] [--print-only <attribute>] [--debug] [--help]"

NoCriteriaLine ==
    "No search criteria specified. Use --resource-id, "
    \o "--class, --text, or --filter-attribute <attr=value>."

Init ==
    /\ pc = "getopt"
    /\ xml_file = ""
    /\ filter_attribute = ""
    /\ filter_value = ""
    /\ only_print = ""
    /\ resource_id = ""
    /\ class_name = ""
    /\ text_value = ""
    /\ debug = 0
    /\ doc = EmptyDoc
    /\ loaded = FALSE
    /\ out = <<>>
    /\ err = <<>>
    /\ variant = "none"
    /\ events = <<>>
    /\ filter = <<>>
    /\ status = "running"

\* The option loop, main.cpp:203-245: one action per case of the switch.
OptionFile ==
    /\ pc = "getopt"
    /\ \E optarg \in FileArgs : xml_file' = optarg
    /\ UNCHANGED <<pc, filter_attribute, filter_value, only_print, resource_id,
                   class_name, text_value, debug, doc, loaded, out, err,
                   variant, events, filter, status>>

OptionResourceId ==
    /\ pc = "getopt"
    /\ \E optarg \in IdArgs : resource_id' = optarg
    /\ UNCHANGED <<pc, xml_file, filter_attribute, filter_value, only_print,
                   class_name, text_value, debug, doc, loaded, out, err,
                   variant, events, filter, status>>

OptionClass ==
    /\ pc = "getopt"
    /\ \E optarg \in IdArgs : class_name' = optarg
    /\ UNCHANGED <<pc, xml_file, filter_attribute, filter_value, only_print,
                   resource_id, text_value, debug, doc, loaded, out, err,
                   variant, events, filter, status>>

OptionText ==
    /\ pc = "getopt"
    /\ \E optarg \in TextArgs : text_value' = optarg
    /\ UNCHANGED <<pc, xml_file, filter_attribute, filter_value, only_print,
                   resource_id, class_name, debug, doc, loaded, out, err,
                   variant, events, filter, status>>

OptionFilter ==
    /\ pc = "getopt"
    /\ \E optarg \in FilterArgs :
         /\ filter' = optarg
         /\ filter_attribute' = ParseFilter(optarg, filter_attribute, filter_value)[1]
         /\ filter_value' = ParseFilter(optarg, filter_attribute, filter_value)[2]
    /\ UNCHANGED <<pc, xml_file, only_print, resource_id, class_name,
                   text_value, debug, doc, loaded, out, err, variant, events,
                   status>>

OptionPrintOnly ==
    /\ pc = "getopt"
    /\ \E optarg \in PrintArgs : only_print' = optarg
    /\ UNCHANGED <<pc, xml_file, filter_attribute, filter_value, resource_id,
                   class_name, text_value, debug, doc, loaded, out, err,
                   variant, events, filter, status>>

OptionDebug ==
    /\ pc = "getopt"
    /\ debug' = 1
    /\ UNCHANGED <<pc, xml_file, filter_attribute, filter_value, only_print,
                   resource_id, class_name, text_value, doc, loaded, out, err,
                   variant, events, filter, status>>

\* case 'h': print_help and return 0.
OptionHelp ==
    /\ pc = "getopt"
    /\ out' = out \o print_help
    /\ status' = "0"
    /\ pc' = "done"
    /\ UNCHANGED <<xml_file, filter_attribute, filter_value, only_print,
                   resource_id, class_name, text_value, debug, doc, loaded,
                   err, variant, events, filter>>

\* default: an option getopt_long does not know, or one missing its argument.
OptionUnknown ==
    /\ pc = "getopt"
    /\ err' = Append(err, UsageLine)
    /\ status' = "1"
    /\ pc' = "done"
    /\ UNCHANGED <<xml_file, filter_attribute, filter_value, only_print,
                   resource_id, class_name, text_value, debug, doc, loaded,
                   out, variant, events, filter>>

\* getopt_long returns -1: the loop ends.
OptionsEnd ==
    /\ pc = "getopt"
    /\ pc' = "check_file"
    /\ UNCHANGED <<xml_file, filter_attribute, filter_value, only_print,
                   resource_id, class_name, text_value, debug, doc, loaded,
                   out, err, variant, events, filter, status>>

\* main.cpp:247-250.
FileMissing ==
    /\ pc = "check_file"
    /\ xml_file = ""
    /\ err' = Append(err, "Error: XML file is required. Use --file <xml_file>")
    /\ status' = "1"
    /\ pc' = "done"
    /\ UNCHANGED <<xml_file, filter_attribute, filter_value, only_print,
                   resource_id, class_name, text_value, debug, doc, loaded,
                   out, variant, events, filter>>

\* main.cpp:252.
FileGiven ==
    /\ pc = "check_file"
    /\ xml_file # ""
    /\ out' = out \o dprint("Opening XML file: " \o xml_file)
    /\ pc' = "load"
    /\ UNCHANGED <<xml_file, filter_attribute, filter_value, only_print,
                   resource_id, class_name, text_value, debug, doc, loaded,
                   err, variant, events, filter, status>>

\* main.cpp:254-258, LoadFile fails: the file is unreadable or malformed.
LoadFails ==
    /\ pc = "load"
    /\ err' = Append(err, "Error: could not parse file " \o xml_file)
    /\ status' = "1"
    /\ pc' = "done"
    /\ UNCHANGED <<xml_file, filter_attribute, filter_value, only_print,
                   resource_id, class_name, text_value, debug, doc, loaded,
                   out, variant, events, filter>>

\* main.cpp:254-260, LoadFile returns XML_SUCCESS with some document.
LoadSucceeds ==
    /\ pc = "load"
    /\ \E d \in Docs : doc' = d
    /\ loaded' = TRUE
    /\ out' = out \o dprint("Successfully loaded XML file")
    /\ pc' = "dispatch"
    /\ UNCHANGED <<xml_file, filter_attribute, filter_value, only_print,
                   resource_id, class_name, text_value, debug, err, variant,
                   events, filter, status>>

\* DispatchTraversal treating a search without a match as a failure.
DispatchTraversal_miss_fails ==
    /\ pc = "dispatch"
    /\ Selected # "none"
    /\ events' = Traversal(Selected)
    /\ ~HasNullDeref(events')
    /\ variant' = Selected
    /\ out' = out \o Written(events')
    /\ status' = IF Written(events') = <<>> THEN "1" ELSE "0"
    /\ pc' = "done"
    /\ UNCHANGED <<xml_file, filter_attribute, filter_value, only_print,
                   resource_id, class_name, text_value, debug, doc, loaded,
                   err, filter>>

\* main.cpp:262-281 when a traversal is selected and dereferences no null
\* pointer: the traversal runs to its end and main returns 0.
DispatchTraversal ==
    /\ pc = "dispatch"
    /\ Selected # "none"
    /\ events' = Traversal(Selected)
    /\ ~HasNullDeref(events')
    /\ variant' = Selected
    /\ out' = out \o Written(events')
    /\ status' = "0"
    /\ pc' = "done"
    /\ UNCHANGED <<xml_file, filter_attribute, filter_value, only_print,
                   resource_id, class_name, text_value, debug, doc, loaded,
                   err, filter>>

\* main.cpp:262-281 when the selected traversal calls a member of a null
\* element (main.cpp:117, 137, 156 with a null root_element): undefined
\* behaviour.  The process is killed by the invalid read, or the read goes
\* unnoticed and the call returns having done nothing.
DispatchNullElement ==
    /\ pc = "dispatch"
    /\ Selected # "none"
    /\ events' = Traversal(Selected)
    /\ HasNullDeref(events')
    /\ variant' = Selected
    /\ \E outcome \in {"SIGSEGV", "0"} : status' = outcome
    /\ pc' = "done"
    /\ UNCHANGED <<xml_file, filter_attribute, filter_value, only_print,
                   resource_id, class_name, text_value, debug, doc, loaded,
                   out, err, filter>>

\* main.cpp:276-281: no criterion is set.
DispatchNone ==
    /\ pc = "dispatch"
    /\ Selected = "none"
    /\ err' = Append(err, NoCriteriaLine)
    /\ status' = "0"
    /\ pc' = "done"
    /\ UNCHANGED <<xml_file, filter_attribute, filter_value, only_print,
                   resource_id, class_name, text_value, debug, doc, loaded,
                   out, variant, events, filter>>

Next ==
    \/ OptionFile
    \/ OptionResourceId
    \/ OptionClass
    \/ OptionText
    \/ OptionFilter
    \/ OptionPrintOnly
    \/ OptionDebug
    \/ OptionHelp
    \/ OptionUnknown
    \/ OptionsEnd
    \/ FileMissing
    \/ FileGiven
    \/ LoadFails
    \/ LoadSucceeds
    \/ DispatchTraversal
    \/ DispatchNullElement
    \/ DispatchNone

Spec == Init /\ [][Next]_vars

(***************************************************************************)
(* Vocabulary of the claims.                                               *)
(***************************************************************************)
IsVisit(ev) == ev.op = "probe"
IsEmit(ev) == ev.op = "print"
NodesOf(evs) == [ i \in 1..Len(evs) |-> evs[i].node ]

\* The elements a traversal evaluated its predicate on, and those it handed
\* to print_node_attributes, in order.
Visited(evs) == NodesOf(SelectSeq(evs, IsVisit))
Emitted(evs) == NodesOf(SelectSeq(evs, IsEmit))

IsCout(w) == w.chan = "cout"
LinesOf(ws) == [ i \in 1..Len(ws) |-> ws[i].line ]
\* The lines written through std::cout (the dprint trace left out).
CoutLines(ws) == LinesOf(SelectSeq(ws, IsCout))

Range(q) == { q[i] : i \in 1..Len(q) }

\* The elements of S in document order.
RECURSIVE InDocumentOrder(_)
InDocumentOrder(S) ==
    IF S = {} THEN <<>> ELSE << Min(S) >> \o InDocumentOrder(S \ {Min(S)})

\* The subtree of element e, and its pre-order walk: elements are numbered in
\* document order, which puts a parent before its children and the children
\* of one parent in their order.
Subtree(e) == { i \in 1..doc.n : e \in AncestorsOrSelf(doc.parent, i) }
PreOrder(e) == InDocumentOrder(Subtree(e))

\* e and the siblings after it.
SiblingsFrom(e) == { i \in Children(doc.parent[e]) : i >= e }

RECURSIVE IsSubsequence(_, _)
IsSubsequence(a, b) ==
    IF a = <<>> THEN TRUE
    ELSE IF b = <<>> THEN FALSE
    ELSE IF Head(a) = Head(b) THEN IsSubsequence(Tail(a), Tail(b))
    ELSE IsSubsequence(a, Tail(b))

Named == {"resource_id", "class", "text"}

\* main ran the dispatch to its end without a null element being used.
Searched == pc = "done" /\ variant # "none" /\ ~HasNullDeref(events)

\* The attribute the running variant probes, and the value it wants there.
KindAttribute ==
    CASE variant = "resource_id" -> "resource-id"
      [] variant = "class" -> "class"
      [] variant = "text" -> "text"
      [] OTHER -> filter_attribute

Target ==
    CASE variant = "resource_id" -> resource_id
      [] variant = "class" -> class_name
      [] variant = "text" -> text_value
      [] OTHER -> filter_value

MatchesPrimary(e) == Attribute(e, KindAttribute) = << Target >>

\* A filter is configured when both its name and its value are set; the empty
\* string is how main holds an absent one (C4 is about the half-empty filter).
FilterConfigured == filter_attribute # "" /\ filter_value # ""

MatchesSecondary(e) ==
    \/ variant = "filter"
    \/ ~FilterConfigured
    \/ Attribute(e, filter_attribute) = << filter_value >>

(***************************************************************************)
(* C1: main calls at most one traversal, the one of the first non-empty    *)
(* criterion in the order resource-id, class, text, attribute filter; a    *)
(* filter given with one of the first three only narrows that traversal's  *)
(* matches (every emitted element matches the named criterion); with no    *)
(* criterion nothing is traversed and only the 'No search criteria' notice *)
(* is written, to the error stream.                                        *)
(***************************************************************************)
C1_DispatchPriority ==
    (pc = "done" /\ loaded) =>
        /\ resource_id # "" => variant = "resource_id"
        /\ (resource_id = "" /\ class_name # "") => variant = "class"
        /\ (resource_id = "" /\ class_name = "" /\ text_value # "")
               => variant = "text"
        /\ (resource_id = "" /\ class_name = "" /\ text_value = ""
              /\ FilterConfigured) => variant = "filter"
        /\ (variant \in Named /\ ~HasNullDeref(events)) =>
               \A e \in Range(Emitted(events)) :
                   MatchesPrimary(e) /\ MatchesSecondary(e)
        /\ (resource_id = "" /\ class_name = "" /\ text_value = ""
              /\ ~FilterConfigured) =>
               /\ variant = "none"
               /\ events = <<>>
               /\ CoutLines(out) = <<>>
               /\ err = << NoCriteriaLine >>
        /\ variant # "none" => err = <<>>

C1_Witness ==
    /\ pc = "done"
    /\ variant = "class"
    /\ text_value # ""
    /\ FilterConfigured
    /\ Emitted(events) # <<>>
    /\ Len(Emitted(events)) < Len(Visited(events))

(***************************************************************************)
(* C2: a named traversal (resource-id, class, text) started on the root    *)
(* of a tree evaluates its predicate on every element of the tree exactly  *)
(* once, in pre-order, whatever matches.                                   *)
(***************************************************************************)
C2_NamedVisitsAllOnce ==
    (pc = "done" /\ variant \in Named /\ RootElement # NULL) =>
        /\ Visited(events) = PreOrder(RootElement)
        /\ Len(Visited(events)) = Cardinality(Subtree(RootElement))

C2_Witness ==
    /\ pc = "done"
    /\ variant = "text"
    /\ doc.n = 3
    /\ Cardinality(Children(RootElement)) = 2
    /\ Emitted(events) = << RootElement >>
    /\ Visited(events) = << 1, 2, 3 >>

(***************************************************************************)
(* C3: an element of the tree is handed to print_node_attributes if and    *)
(* only if it carries the probed attribute with exactly the target value   *)
(* and the secondary filter holds on it; no element is emitted otherwise.  *)
(***************************************************************************)
C3_EmitIffMatch ==
    Searched =>
        /\ \A e \in Subtree(RootElement) :
               e \in Range(Emitted(events))
                   <=> (MatchesPrimary(e) /\ MatchesSecondary(e))
        /\ \A e \in Range(Emitted(events)) :
               MatchesPrimary(e) /\ MatchesSecondary(e)

C3_Witness ==
    /\ Searched
    /\ variant = "class"
    /\ FilterConfigured
    /\ \E e \in Subtree(RootElement) : e \in Range(Emitted(events))
    /\ \E e \in Subtree(RootElement) :
           MatchesPrimary(e) /\ ~MatchesSecondary(e)
    /\ \E e \in Subtree(RootElement) : Attribute(e, "class") = <<>>

(***************************************************************************)
(* C4.  The claim as written: every -F argument holding '=' configures the *)
(* filter as (text before the first '=', text after it), and with a named  *)
(* criterion set an element is then emitted only if it carries the named   *)
(* attribute with exactly that value, also when a part is empty.           *)
(***************************************************************************)
HasEquals(f) == \E i \in 1..Len(f) : f[i] = "="
FirstEquals(f) == Min({ i \in 1..Len(f) : f[i] = "=" })
BeforeEquals(f) == Str(SubSeq(f, 1, FirstEquals(f) - 1))
AfterEquals(f) == Str(SubSeq(f, FirstEquals(f) + 1, Len(f)))

C4_FieldsFromArgument ==
    HasEquals(filter) =>
        /\ filter_attribute = BeforeEquals(filter)
        /\ filter_value = AfterEquals(filter)

C4_Original ==
    /\ C4_FieldsFromArgument
    /\ (Searched /\ variant \in Named /\ HasEquals(filter)) =>
           \A e \in Range(Emitted(events)) :
               Attribute(e, filter_attribute) = << filter_value >>

\* The elements of the root's tree that match the primary criterion alone.
PrimaryMatches == SelectSeq(PreOrder(RootElement), MatchesPrimary)

C4_Emission ==
    (Searched /\ variant \in Named) =>
        /\ FilterConfigured =>
               \A e \in Range(Emitted(events)) :
                   Attribute(e, filter_attribute) = << filter_value >>
        /\ ~FilterConfigured => Emitted(events) = PrimaryMatches

C4_NoEqualsKeepsFields ==
    (filter' # filter /\ ~HasEquals(filter'))
        => UNCHANGED <<filter_attribute, filter_value>>

(***************************************************************************)
(* C4, amended: a -F argument holding '=' sets the filter fields to (text  *)
(* before the first '=', text after it) and one without '=' leaves them as *)
(* they were.  With a named criterion set, the filter narrows the matches  *)
(* only when both parts are non-empty: an element is then emitted only if  *)
(* it carries the named attribute with exactly that value.  When the name  *)
(* or the value part is empty the filter constrains nothing and every      *)
(* element matching the named criterion is emitted.                        *)
(***************************************************************************)
C4_Amended ==
    /\ [](C4_FieldsFromArgument /\ C4_Emission)
    /\ [][C4_NoEqualsKeepsFields]_vars

C4_Witness ==
    /\ Searched
    /\ variant = "class"
    /\ filter = << "a", "=" >>
    /\ filter_attribute = "a"
    /\ filter_value = ""
    /\ Len(Emitted(events)) = 2
    /\ \E e \in Range(Emitted(events)) : Attribute(e, "a") # << "" >>

(***************************************************************************)
(* C5: with a named criterion, the elements emitted under a secondary      *)
(* filter are a subsequence (same order) of those emitted for the same     *)
(* criterion with no secondary filter.                                     *)
(***************************************************************************)
Unfiltered ==
    CASE variant = "resource_id" ->
           find_node_by_resource_id(RootElement, resource_id, only_print, "", "")
      [] variant = "class" ->
           find_node_by_class(RootElement, class_name, only_print, "", "")
      [] variant = "text" ->
           find_node_by_text(RootElement, text_value, only_print, "", "")

C5_FilterRestricts ==
    (Searched /\ variant \in Named) =>
        IsSubsequence(Emitted(events), Emitted(Unfiltered))

C5_Witness ==
    /\ Searched
    /\ variant = "class"
    /\ FilterConfigured
    /\ Len(Emitted(Unfiltered)) = 3
    /\ Len(Emitted(events)) = 2
    /\ Emitted(events) = << 1, 3 >>

(***************************************************************************)
(* C6.  The claim: a run ends with status 1 only when the file path is     *)
(* empty or the document fails to parse, such a run visits and prints no   *)
(* element, and every run that loaded its document ends with status 0.     *)
(* The claim is about runs whose arguments getopt_long accepts: the usage  *)
(* exit of main.cpp:236-243 belongs to argument parsing.                   *)
(***************************************************************************)
UsageError == err = << UsageLine >>

ParseFailed ==
    /\ xml_file # ""
    /\ ~loaded
    /\ err = << "Error: could not parse file " \o xml_file >>

C6_Claim ==
    /\ (status = "1" /\ ~UsageError) =>
           /\ xml_file = "" \/ ParseFailed
           /\ events = <<>>
           /\ CoutLines(out) = <<>>
    /\ (pc = "done" /\ loaded) => status = "0"

(***************************************************************************)
(* C7.  The claim as written: a search in which no element matches writes  *)
(* an informational message (the output is not empty) and ends with status *)
(* 0; a matched element lacking the --print-only attribute gets a notice   *)
(* and the traversal goes on.                                              *)
(***************************************************************************)
NotFoundLine(e) ==
    "Attribute '" \o only_print \o "' not found on node " \o Name(e)

\* The elements the running variant walks when started on a non-null root.
Walked ==
    IF variant = "filter"
    THEN InDocumentOrder(1..doc.n)
    ELSE PreOrder(RootElement)

C7_MissingAttributeNotice ==
    (Searched /\ only_print # "") =>
        /\ Len(CoutLines(out)) = Len(Emitted(events))
        /\ \A i \in 1..Len(Emitted(events)) :
               Attribute(Emitted(events)[i], only_print) = <<>>
                   => CoutLines(out)[i] = NotFoundLine(Emitted(events)[i])
        /\ Visited(events) = Walked
        /\ status = "0"

C7_Original ==
    /\ (Searched /\ Emitted(events) = <<>>) =>
           /\ CoutLines(out) # <<>>
           /\ status = "0"
    /\ C7_MissingAttributeNotice

(***************************************************************************)
(* C7, amended: a search over a document with a root element in which no   *)
(* element matches writes nothing, neither to the standard output (the     *)
(* debug trace apart) nor to the error stream, and ends with status 0; a   *)
(* matched element lacking the --print-only attribute gets a notice line   *)
(* and the traversal goes on through the remaining elements.               *)
(***************************************************************************)
C7_Amended ==
    /\ (Searched /\ Emitted(events) = <<>>) =>
           /\ CoutLines(out) = <<>>
           /\ err = <<>>
           /\ Visited(events) = Walked
           /\ status = "0"
    /\ C7_MissingAttributeNotice

C7_Witness ==
    /\ Searched
    /\ variant = "resource_id"
    /\ doc.n = 3
    /\ Emitted(events) = <<>>
    /\ Len(Visited(events)) = 3
    /\ out = <<>>

(***************************************************************************)
(* C8.  The claim as written: started on any element, find_node_by_filter  *)
(* emits exactly the matching elements of that element's subtree, once     *)
(* each and in document order, also when the element has later siblings.   *)
(***************************************************************************)
MatchesFilter(e) == Attribute(e, filter_attribute) = << filter_value >>
MatchingIn(S) == SelectSeq(InDocumentOrder(S), MatchesFilter)
FilterEmits(e) ==
    Emitted(find_node_by_filter(e, filter_attribute, filter_value, only_print))

C8_Original ==
    (pc = "done" /\ variant = "filter") =>
        \A e \in 1..doc.n : FilterEmits(e) = MatchingIn(Subtree(e))

(***************************************************************************)
(* C8, amended: started on an element, find_node_by_filter emits exactly   *)
(* the matching elements of the subtrees of that element and of every      *)
(* sibling after it, once each and in document order; that is the pre-     *)
(* order walk of the element's own subtree when no sibling follows it, and *)
(* nothing when it is started on null.                                     *)
(***************************************************************************)
C8_Amended ==
    (pc = "done" /\ variant = "filter") =>
        /\ \A e \in 1..doc.n :
               /\ FilterEmits(e) =
                      MatchingIn(UNION { Subtree(x) : x \in SiblingsFrom(e) })
               /\ NextSiblingElement(e) = NULL
                      => FilterEmits(e) = MatchingIn(Subtree(e))
        /\ FilterEmits(NULL) = <<>>
        /\ Emitted(events) = MatchingIn(1..doc.n)

C8_Witness ==
    /\ pc = "done"
    /\ variant = "filter"
    /\ doc.n = 3
    /\ NextSiblingElement(RootElement) = 3
    /\ Emitted(events) = << 2, 3 >>

(***************************************************************************)
(* C9: for a matched element print_node_attributes writes, under a single- *)
(* attribute directive, one line: 'name: value' when the element has the   *)
(* attribute, else a notice naming the attribute and the element's tag;    *)
(* under the all-attributes directive 'Node: tag', one '  attr: value'     *)
(* line per attribute in document order (one placeholder line when there   *)
(* is none), then an empty line.  An empty --print-only means all.         *)
(***************************************************************************)
HasAttribute(e, name) ==
    \E i \in 1..Len(doc.attrs[e]) : doc.attrs[e][i].name = name

ExpectedLines(e, directive) ==
    LET at == doc.attrs[e]
    IN  IF directive # ""
        THEN IF HasAttribute(e, directive)
             THEN << directive \o ": " \o Attribute(e, directive)[1] >>
             ELSE << "Attribute '" \o directive \o "' not found on node "
                     \o Name(e) >>
        ELSE << "Node: " \o Name(e) >> \o
             ( IF Len(at) = 0
               THEN << "  No attributes found for node: " \o Name(e) >>
               ELSE [ i \in 1..Len(at) |->
                        "  " \o at[i].name \o ": " \o at[i].value ] ) \o
             << "" >>

RECURSIVE ExpectedOutput(_, _)
ExpectedOutput(nodes, directive) ==
    IF nodes = <<>>
    THEN <<>>
    ELSE ExpectedLines(Head(nodes), directive)
             \o ExpectedOutput(Tail(nodes), directive)

C9_PrintedLines ==
    /\ (pc = "done" /\ loaded) =>
           \A e \in 1..doc.n : \A directive \in PrintArgs :
               /\ CoutLines(print_node_attributes(e, directive))
                      = ExpectedLines(e, directive)
               /\ directive # "" =>
                      Len(CoutLines(print_node_attributes(e, directive))) = 1
    /\ Searched =>
           CoutLines(out) = ExpectedOutput(Emitted(events), only_print)

C9_Witness ==
    /\ Searched
    /\ only_print = ""
    /\ debug = 1
    /\ Len(Emitted(events)) = 2
    /\ \E e \in 1..doc.n : doc.attrs[e] = <<>>
    /\ Len(CoutLines(out)) = 11

(***************************************************************************)
(* C10.  The claim: a traversal called on a null element (the document has *)
(* no root element) ends silently, emits nothing and the run completes     *)
(* normally, for each of the four variants.                                *)
(***************************************************************************)
C10_Claim ==
    (pc = "done" /\ loaded /\ variant # "none" /\ RootElement = NULL) =>
        /\ status = "0"
        /\ CoutLines(out) = <<>>
====
